---- MODULE Spec2Model ----
(***************************************************************************)
(* A model of the Docker class of src/lib/docker.ts: the "safe" command    *)
(* runner (runSafe, lsSafe, catSafe), the image filesystem scanner         *)
(* (findGlobs) and the streaming hasher (calcHashOfBinaryFiles).           *)
(*                                                                         *)
(* Paths are sequences of segments: "/" is <<>>, "/app/lib" is             *)
(* <<"app", "lib">>.  A text (stderr) is a sequence of words, so that a    *)
(* substring search is a search for a contiguous run of words.  The        *)
(* stdout of a listing is a sequence of lines.                             *)
(***************************************************************************)
EXTENDS Integers, Sequences, FiniteSets, TLC

(***************************************************************************)
(* Bounds of the model.                                                    *)
(***************************************************************************)
MaxRootLines == 2
MaxSubLines == 3
MaxFiles == 2
MaxChunks == 3

(***************************************************************************)
(* Sequence helpers.                                                       *)
(***************************************************************************)
Range(s) == {s[i] : i \in 1..Len(s)}

Injective(s) == \A i, j \in 1..Len(s) : s[i] = s[j] => i = j

SeqsUpTo(S, n) == UNION {[1..k -> S] : k \in 0..n}

RECURSIVE Concat(_)
Concat(ss) == IF ss = <<>> THEN <<>> ELSE Head(ss) \o Concat(Tail(ss))

(***************************************************************************)
(* String.prototype.indexOf on texts: the 0-based position of the first    *)
(* occurrence of pat in text, or -1.                                       *)
(***************************************************************************)
OccursAt(text, pat, i) ==
    /\ i + Len(pat) <= Len(text)
    /\ \A k \in 1..Len(pat) : text[i + k] = pat[k]

IndexOf(text, pat) ==
    LET hits == {i \in 0..Len(text) : OccursAt(text, pat, i)}
    IN  IF hits = {} THEN -1
        ELSE CHOOSE i \in hits : \A j \in hits : i <= j

(***************************************************************************)
(* The outcome of subProcess.execute: it resolves with {stdout, stderr} or *)
(* rejects with an error.  The error of a non-zero exit carries stdout and *)
(* stderr; any other error has no string in stderr.                        *)
(***************************************************************************)
NoText == [isString |-> FALSE, text |-> <<>>]

Text(t) == [isString |-> TRUE, text |-> t]

NoResp == [kind |-> "none", stdout |-> <<>>, stderr |-> NoText]

PermissionDeniedMsg == <<"ls:", "/proc/1/fd:", "Permission", "denied">>

Stderrs ==
    { Text(PermissionDeniedMsg),
      Text(<<"No", "such", "file">>),
      Text(<<"cat:", "file", "not", "found">>),
      Text(<<"no", "such", "file">>),
      NoText }

\* runSafe's default for ignoreErrors
DefaultIgnoreErrors == << <<"No", "such", "file">>, <<"file", "not", "found">> >>

LsIgnoreErrorsDefault == DefaultIgnoreErrors

\* lsSafe's ignoreErrors
LsIgnoreErrors ==
    << <<"No", "such", "file">>, <<"file", "not", "found">>,
       <<"Permission", "denied">> >>

(***************************************************************************)
(* runSafe: the result of the command, or, for a failure whose stderr is a *)
(* string holding one of ignoreErrors, the failure's {stdout, stderr}; any *)
(* other failure is thrown again.                                          *)
(***************************************************************************)
IgnoredBad(stderr, ignoreErrors) ==
    \E k \in 1..Len(ignoreErrors) : IndexOf(stderr.text, ignoreErrors[k]) > 0

Ignored(stderr, ignoreErrors) ==
    \E k \in 1..Len(ignoreErrors) : IndexOf(stderr.text, ignoreErrors[k]) >= 0

RunSafeNoRethrow(r, ignoreErrors) ==
    [threw |-> FALSE, stdout |-> r.stdout, stderr |-> r.stderr]

RunSafe(r, ignoreErrors) ==
    IF r.kind = "ok"
    THEN [threw |-> FALSE, stdout |-> r.stdout, stderr |-> r.stderr]
    ELSE IF r.stderr.isString /\ Ignored(r.stderr, ignoreErrors)
         THEN [threw |-> FALSE, stdout |-> r.stdout, stderr |-> r.stderr]
         ELSE [threw |-> TRUE, stdout |-> r.stdout, stderr |-> r.stderr]

LsParamsRecursive(recursive) == "-1apR"

\* lsSafe's parameters for ls
LsParams(recursive) == IF recursive THEN "-1apR" ELSE "-1ap"

LsCall(path, recursive) ==
    [cmd |-> "ls", params |-> LsParams(recursive), path |-> path]

(***************************************************************************)
(* Listings.  A line of ls -1ap[R] names a directory, names a file, opens  *)
(* the section of a subdirectory (a header, its path relative to the       *)
(* listed directory) or is none of these ("./", "../", a blank line).      *)
(***************************************************************************)
DirLine(n) == [t |-> "dir", name |-> n, path |-> <<>>]

FileLine(n) == [t |-> "file", name |-> n, path |-> <<>>]

HdrLine(p) == [t |-> "hdr", name |-> "", path |-> p]

RootLines == {DirLine("proc"), DirLine("app"), DirLine("usr"), FileLine("a")}

SubLines == {FileLine("a"), DirLine("lib"), HdrLine(<<"lib">>)}

\* a header follows the line that names its directory
WellFormed(ls) ==
    \A i \in 1..Len(ls) :
        ls[i].t = "hdr" =>
            \E j \in 1..(i - 1) : ls[j] = DirLine(ls[i].path[Len(ls[i].path)])

RootListings == {ls \in SeqsUpTo(RootLines, MaxRootLines) : Injective(ls)}

SubListings ==
    {ls \in SeqsUpTo(SubLines, MaxSubLines) : Injective(ls) /\ WellFormed(ls)}

(***************************************************************************)
(* lsu.DiscoveredDirectory and lsu.parseLsOutput.                          *)
(***************************************************************************)
EmptyDir(n) == [name |-> n, subDirs |-> <<>>, files |-> <<>>]

RECURSIVE AddFile(_, _, _)
AddFile(dir, at, f) ==
    IF at = <<>>
    THEN [dir EXCEPT !.files = Append(@, f)]
    ELSE [dir EXCEPT !.subDirs =
            [i \in 1..Len(@) |->
                IF @[i].name = Head(at) /\ \A j \in 1..(i - 1) : @[j].name # Head(at)
                THEN AddFile(@[i], Tail(at), f)
                ELSE @[i]]]

RECURSIVE AddDir(_, _, _)
AddDir(dir, at, n) ==
    IF at = <<>>
    THEN [dir EXCEPT !.subDirs = Append(@, EmptyDir(n))]
    ELSE [dir EXCEPT !.subDirs =
            [i \in 1..Len(@) |->
                IF @[i].name = Head(at) /\ \A j \in 1..(i - 1) : @[j].name # Head(at)
                THEN AddDir(@[i], Tail(at), n)
                ELSE @[i]]]

RECURSIVE ParseLines(_, _, _)
ParseLines(lines, dir, currPath) ==
    IF lines = <<>> THEN dir
    ELSE LET l == Head(lines)
         IN  CASE l.t = "hdr" -> ParseLines(Tail(lines), dir, l.path)
               [] l.t = "dir" ->
                    ParseLines(Tail(lines), AddDir(dir, currPath, l.name), currPath)
               [] l.t = "file" ->
                    ParseLines(Tail(lines),
                               AddFile(dir, currPath,
                                       [name |-> l.name, path |-> currPath]),
                               currPath)
               [] OTHER -> ParseLines(Tail(lines), dir, currPath)

ParseLsOutput(stdout) == ParseLines(stdout, EmptyDir("/"), <<>>)

(***************************************************************************)
(* lsu.iterateFiles: the files of a directory, then those of its           *)
(* subdirectories in order.                                                *)
(***************************************************************************)
RECURSIVE IterateFiles(_)
IterateFiles(dir) ==
    dir.files \o Concat([i \in 1..Len(dir.subDirs) |-> IterateFiles(dir.subDirs[i])])

ReRootTopOnly(dir, subdirName) ==
    [dir EXCEPT !.files = [i \in 1..Len(@) |->
                              [@[i] EXCEPT !.path = <<subdirName>> \o @]]]

\* the walk of findGlobs' lines 207-209: f.path = "/" + subdir.name + f.path
RECURSIVE ReRoot(_, _)
ReRoot(dir, subdirName) ==
    [dir EXCEPT !.files = [i \in 1..Len(@) |->
                              [@[i] EXCEPT !.path = <<subdirName>> \o @]],
                !.subDirs = [i \in 1..Len(@) |-> ReRoot(@[i], subdirName)]]

(***************************************************************************)
(* minimatch on segment paths: a glob is a sequence of segment patterns, a *)
(* name, "*" (one segment) or "**" (any number of segments).               *)
(***************************************************************************)
RECURSIVE Minimatch(_, _)
Minimatch(p, g) ==
    IF g = <<>> THEN p = <<>>
    ELSE IF Head(g) = "**"
         THEN Minimatch(p, Tail(g)) \/ (p # <<>> /\ Minimatch(Tail(p), g))
         ELSE /\ p # <<>>
              /\ Head(g) = "*" \/ Head(g) = Head(p)
              /\ Minimatch(Tail(p), Tail(g))

\* fspath.join(f.path, f.name)
Join(path, name) == Append(path, name)

\* a list of globs that may be undefined
NoGlobs == [defined |-> FALSE, list |-> <<>>]

GlobList(l) == [defined |-> TRUE, list |-> l]

\* checkMatch; its filePath is never empty (fspath.join yields no empty string)
CheckMatch(filePath, globsArr) ==
    IF ~globsArr.defined THEN FALSE
    ELSE \E k \in 1..Len(globsArr.list) : Minimatch(filePath, globsArr.list[k])

(***************************************************************************)
(* The walk of findGlobs' lines 224-246 over the files of the tree, in the *)
(* order of the visits.                                                    *)
(***************************************************************************)
ExcludedByLast(filePath, exclusionGlobs) ==
    /\ exclusionGlobs # <<>>
    /\ Minimatch(filePath, exclusionGlobs[Len(exclusionGlobs)])

\* lines 226-231
Excluded(filePath, exclusionGlobs) ==
    \E k \in 1..Len(exclusionGlobs) : Minimatch(filePath, exclusionGlobs[k])

VisitNoReturn(f, globs, exclusionGlobs, acc) ==
    LET filePath == Join(f.path, f.name)
        m == CheckMatch(filePath, globs.manifestGlobs)
        b == CheckMatch(filePath, globs.binaryGlobs)
    IN  IF Excluded(filePath, exclusionGlobs) THEN acc
        ELSE [manifestFiles |->
                 IF m THEN Append(acc.manifestFiles, filePath) ELSE acc.manifestFiles,
              binaryFiles |->
                 IF b THEN Append(acc.binaryFiles, filePath) ELSE acc.binaryFiles]

\* lines 224-246: the visitor, on one file
Visit(f, globs, exclusionGlobs, acc) ==
    LET filePath == Join(f.path, f.name)
    IN  IF Excluded(filePath, exclusionGlobs) THEN acc
        ELSE IF CheckMatch(filePath, globs.manifestGlobs)
             THEN [acc EXCEPT !.manifestFiles = Append(@, filePath)]
             ELSE IF CheckMatch(filePath, globs.binaryGlobs)
                  THEN [acc EXCEPT !.binaryFiles = Append(@, filePath)]
                  ELSE acc

RECURSIVE Classify(_, _, _, _)
Classify(fs, globs, exclusionGlobs, acc) ==
    IF fs = <<>> THEN acc
    ELSE Classify(Tail(fs), globs, exclusionGlobs,
                  Visit(Head(fs), globs, exclusionGlobs, acc))

EmptyResult == [manifestFiles |-> <<>>, binaryFiles |-> <<>>]

(***************************************************************************)
(* The arguments of findGlobs.                                             *)
(***************************************************************************)
SystemDirectories == <<"dev", "proc", "sys">>

LibGlob == <<"**", "lib", "*">>

AnyGlob == <<"**">>

UsrGlob == <<"usr", "**">>

ManifestChoices == {NoGlobs, GlobList(<<LibGlob>>)}

BinaryChoices == {GlobList(<<>>), GlobList(<<AnyGlob>>)}

ExclusionChoices == {<<>>, <<UsrGlob, LibGlob>>}

ExcludeRootChoices == {SystemDirectories, <<"usr">>}

PathChoices == {<<>>, <<"app">>}

NoArgs ==
    [globs |-> [manifestGlobs |-> NoGlobs, binaryGlobs |-> NoGlobs],
     exclusionGlobs |-> <<>>, path |-> <<>>, recursive |-> FALSE,
     excludeRootDirectories |-> <<>>]

(***************************************************************************)
(* State.                                                                  *)
(*   pc       where the running operation stands ("idle": none started)    *)
(*   resp     the outcome of the command the operation awaits, once the    *)
(*            command has ended                                            *)
(*   calls    the commands run against the image so far                    *)
(*   ignore   runSafe's ignoreErrors for the awaited command               *)
(*   safeRes  what runSafe, catSafe or lsSafe returned or threw            *)
(*   args, root, idx, result, raised   findGlobs' arguments, tree, index   *)
(*            of the subdirectory of the loop, result, and whether it      *)
(*            threw                                                        *)
(*   caught   whether a listing of the scan was returned by the catch of   *)
(*            runSafe (line 86)                                            *)
(*   files, hashType, fileIdx, hash, resultArr   calcHashOfBinaryFiles'    *)
(*            arguments, the index of the file of its loop, that file's    *)
(*            crypto.Hash and the records so far                           *)
(*   cur      whether a chunk of the open stream flagged an error, and the *)
(*            number of chunks delivered to the call                       *)
(*   streams  for each stream opened so far: the exit code delivered       *)
(*            (-1: none), the records pushed, and how the call ended       *)
(*   callNo, listed, first   whether findGlobs runs for the first or the   *)
(*            second time, the stdout of the listings of the first call    *)
(*            and the result of the first call                             *)
(*   delivered   the chunks the open stream has delivered                  *)
(*   dockerOptions, optionsList, built   the options of the constructor,   *)
(*            the list made of them and the docker command built last      *)
(***************************************************************************)
VARIABLES pc, resp, calls, ignore, safeRes, args, root, idx, result, raised, caught,
          files, hashType, fileIdx, hash, resultArr, cur, streams,
          callNo, listed, first, delivered,
          dockerOptions, optionsList, built

\* a second call of findGlobs: which call this is, the listings the first
\* call got and what it returned
againVars == <<callNo, listed, first>>

\* the chunks the stream in progress has delivered, in the order of their
\* arrival
logVars == <<delivered>>

\* the options the Docker object was constructed with, its optionsList and
\* the docker command built last
optVars == <<dockerOptions, optionsList, built>>

hashVars == <<files, hashType, fileIdx, hash, resultArr, cur, streams>>

scanVars == <<args, root, idx, result, raised, caught>>

safeVars == <<ignore, safeRes>>

NoSafeRes == [threw |-> FALSE, stdout |-> <<>>, stderr |-> NoText]

InitRun ==
    /\ pc = "idle"
    /\ resp = NoResp
    /\ calls = <<>>
    /\ ignore = <<>>
    /\ safeRes = NoSafeRes

InitScan ==
    /\ args = NoArgs
    /\ root = EmptyDir("/")
    /\ idx = 0
    /\ result = EmptyResult
    /\ raised = FALSE
    /\ caught = FALSE

(***************************************************************************)
(* subProcess.execute ends: the awaited command succeeds with some stdout  *)
(* or fails, with some stdout and stderr.                                  *)
(***************************************************************************)
AwaitsRun == {"runSafe", "lsRoot", "lsSub", "lsPath"}

Stdouts ==
    CASE pc = "lsRoot" -> RootListings
      [] pc = "lsSub" -> SubListings
      [] pc = "lsPath" -> SubListings
      [] OTHER -> {<<>>, <<FileLine("a")>>}

ExecuteEnds ==
    /\ pc \in AwaitsRun
    /\ resp.kind = "none"
    /\ \E out \in Stdouts :
          \/ resp' = [kind |-> "ok", stdout |-> out, stderr |-> Text(<<>>)]
          \/ \E e \in Stderrs :
                resp' = [kind |-> "fail", stdout |-> out, stderr |-> e]
    /\ UNCHANGED <<pc, calls>>

(***************************************************************************)
(* runSafe, catSafe and lsSafe called on their own.                        *)
(***************************************************************************)
IgnoreChoices == {DefaultIgnoreErrors, LsIgnoreErrors, <<>>}

RunSafeCall ==
    /\ pc = "idle"
    /\ \E ig \in IgnoreChoices : ignore' = ig
    /\ calls' = Append(calls, [cmd |-> "cmd", params |-> "", path |-> <<>>])
    /\ pc' = "runSafe"
    /\ UNCHANGED <<resp, safeRes>>

CatSafeCall ==
    /\ pc = "idle"
    /\ ignore' = DefaultIgnoreErrors
    /\ \E filename \in PathChoices :
          calls' = Append(calls, [cmd |-> "cat", params |-> "", path |-> filename])
    /\ pc' = "runSafe"
    /\ UNCHANGED <<resp, safeRes>>

LsSafeCall ==
    /\ pc = "idle"
    /\ ignore' = LsIgnoreErrors
    /\ \E path \in PathChoices, recursive \in BOOLEAN :
          calls' = Append(calls, LsCall(path, recursive))
    /\ pc' = "runSafe"
    /\ UNCHANGED <<resp, safeRes>>

RunSafeReturn ==
    /\ pc = "runSafe"
    /\ resp.kind # "none"
    /\ safeRes' = RunSafe(resp, ignore)
    /\ pc' = IF RunSafe(resp, ignore).threw THEN "threw" ELSE "returned"
    /\ UNCHANGED <<resp, calls, ignore>>

(***************************************************************************)
(* findGlobs.                                                              *)
(***************************************************************************)
SharedResult == result

\* lines 186-189: the result of a call is a new object
FreshResult == EmptyResult

FromRootAnyPath(path, recursive) == recursive

\* line 191: recursive && path === "/"
FromRoot(path, recursive) == recursive /\ path = <<>>

\* lines 177-196 and 214-216: the call of findGlobs up to its first listing
FindGlobs(a) ==
    /\ args' = a
    /\ result' = FreshResult
    /\ IF FromRoot(a.path, a.recursive)
       THEN /\ calls' = Append(calls, LsCall(<<>>, FALSE))
            /\ pc' = "lsRoot"
       ELSE /\ calls' = Append(calls, LsCall(a.path, a.recursive))
            /\ pc' = "lsPath"
    /\ UNCHANGED <<resp, root, idx, raised, caught>>

FindGlobsCall ==
    /\ pc = "idle"
    /\ \E m \in ManifestChoices, b \in BinaryChoices, x \in ExclusionChoices,
          p \in PathChoices, r \in BOOLEAN, xr \in ExcludeRootChoices :
          FindGlobs([globs |-> [manifestGlobs |-> m, binaryGlobs |-> b],
                     exclusionGlobs |-> x, path |-> p, recursive |-> r,
                     excludeRootDirectories |-> xr])

\* the listing of findGlobs threw: findGlobs throws
Raise ==
    /\ pc' = "raised"
    /\ raised' = TRUE
    /\ resp' = resp
    /\ UNCHANGED <<calls, args, root, idx, result, caught>>

\* lines 196-197
LsRootReturn ==
    /\ pc = "lsRoot"
    /\ resp.kind # "none"
    /\ IF RunSafe(resp, LsIgnoreErrors).threw
       THEN Raise
       ELSE /\ root' = ParseLsOutput(RunSafe(resp, LsIgnoreErrors).stdout)
            /\ idx' = 1
            /\ pc' = "subdirs"
            /\ resp' = NoResp
            /\ caught' = (caught \/ resp.kind = "fail")
            /\ UNCHANGED <<calls, args, result, raised>>

IncludesFirst(list, x) == list # <<>> /\ list[1] = x

IncludesNever(list, x) == FALSE

\* Array.prototype.includes
Includes(list, x) == \E k \in 1..Len(list) : list[k] = x

\* lines 199-204: the next subdirectory is skipped, or listed
SubdirNext ==
    /\ pc = "subdirs"
    /\ idx <= Len(root.subDirs)
    /\ IF Includes(args.excludeRootDirectories, root.subDirs[idx].name)
       THEN /\ idx' = idx + 1
            /\ UNCHANGED <<pc, calls>>
       ELSE /\ calls' = Append(calls, LsCall(<<root.subDirs[idx].name>>, TRUE))
            /\ pc' = "lsSub"
            /\ idx' = idx
    /\ UNCHANGED <<resp, args, root, result, raised, caught>>

\* lines 204-212
LsSubReturn ==
    /\ pc = "lsSub"
    /\ resp.kind # "none"
    /\ IF RunSafe(resp, LsIgnoreErrors).threw
       THEN Raise
       ELSE LET subdirRecursive ==
                   ReRoot(ParseLsOutput(RunSafe(resp, LsIgnoreErrors).stdout),
                          root.subDirs[idx].name)
            IN  /\ root' = [root EXCEPT
                              !.subDirs[idx].subDirs = subdirRecursive.subDirs,
                              !.subDirs[idx].files = subdirRecursive.files]
                /\ idx' = idx + 1
                /\ pc' = "subdirs"
                /\ resp' = NoResp
                /\ caught' = (caught \/ resp.kind = "fail")
                /\ UNCHANGED <<calls, args, result, raised>>

\* lines 215-221
LsPathReturn ==
    /\ pc = "lsPath"
    /\ resp.kind # "none"
    /\ IF RunSafe(resp, LsIgnoreErrors).threw
       THEN Raise
       ELSE /\ root' = ParseLsOutput(RunSafe(resp, LsIgnoreErrors).stdout)
            /\ pc' = "walk"
            /\ resp' = NoResp
            /\ caught' = (caught \/ resp.kind = "fail")
            /\ UNCHANGED <<calls, args, idx, result, raised>>

\* the loop of lines 199-213 is over
SubdirsDone ==
    /\ pc = "subdirs"
    /\ idx > Len(root.subDirs)
    /\ pc' = "walk"
    /\ UNCHANGED <<resp, calls, args, root, idx, result, raised, caught>>

\* lines 224-248
Walk ==
    /\ pc = "walk"
    /\ result' = Classify(IterateFiles(root), args.globs, args.exclusionGlobs,
                          result)
    /\ pc' = "done"
    /\ UNCHANGED <<resp, calls, args, root, idx, raised, caught>>

(***************************************************************************)
(* findGlobs called a second time with the arguments of the first call,    *)
(* its listings getting the output they got in the first call.             *)
(***************************************************************************)
FindGlobsAgain ==
    /\ pc = "done"
    /\ callNo = 1
    /\ callNo' = 2
    /\ first' = result
    /\ FindGlobs(args)
    /\ UNCHANGED listed

\* the k-th listing of the second call ends as the k-th of the first did
ExecuteReplays ==
    /\ pc \in {"lsRoot", "lsSub", "lsPath"}
    /\ callNo = 2
    /\ resp.kind = "none"
    /\ Len(calls) - Len(listed) \in 1..Len(listed)
    /\ resp' = [kind |-> "ok", stdout |-> listed[Len(calls) - Len(listed)],
                stderr |-> Text(<<>>)]
    /\ UNCHANGED <<pc, calls>>

\* the listing that returns is one the first call got
Listed ==
    IF callNo = 1 /\ ~RunSafe(resp, LsIgnoreErrors).threw
    THEN listed' = Append(listed, RunSafe(resp, LsIgnoreErrors).stdout)
    ELSE listed' = listed

(***************************************************************************)
(* calcHashOfBinaryFiles.  A crypto.Hash is the data it was updated with   *)
(* and whether digest() was called; its digest stands for that data under  *)
(* the algorithm, two digests being equal only for equal data.             *)
(***************************************************************************)
HASH_ALGORITHM_SHA1 == "sha1"

CreateHash(algorithm) == [algorithm |-> algorithm, data |-> <<>>, finalized |-> FALSE]

Update(h, data) == [h EXCEPT !.data = @ \o data]

Digest(h) == [algorithm |-> h.algorithm, of |-> h.data]

Finalize(h) == [h EXCEPT !.finalized = TRUE]

\* path.basename and path.dirname
Basename(file) == file[Len(file)]

Dirname(file) == SubSeq(file, 1, Len(file) - 1)

NoOptions == [given |-> FALSE, hashType |-> ""]

OptionsChoices == {NoOptions, [given |-> TRUE, hashType |-> "sha256"]}

\* lines 257-258
HashTypeOf(options) ==
    IF options.given /\ options.hashType # "" THEN options.hashType
    ELSE HASH_ALGORITHM_SHA1

HashFiles == {<<"app", "a">>, <<"usr", "b">>}

(***************************************************************************)
(* A chunk of subProcess.executeAsStream: {data, err, exitCode}, each of   *)
(* them optional (no data: <<>>, no exit code: -1).  The chunk with the    *)
(* exit code is the last one of its stream, but in SpecHashAny, where a    *)
(* stream delivers any chunks.  A call gets MaxChunks chunks at most.      *)
(***************************************************************************)
NoExit == -1

Chunks == [data : {<<>>, <<1>>, <<2>>}, err : BOOLEAN, exitCode : {NoExit, 0, 1}]

NewStream == [exitCode |-> NoExit, pushed |-> 0, ended |-> "open"]

NoChunks == [err |-> FALSE, chunks |-> 0]

InitHash ==
    /\ files = <<>>
    /\ hashType = ""
    /\ fileIdx = 0
    /\ hash = CreateHash("")
    /\ resultArr = <<>>
    /\ cur = NoChunks
    /\ streams = <<>>

CalcHashCall ==
    /\ pc = "idle"
    /\ \E fs \in SeqsUpTo(HashFiles, MaxFiles), options \in OptionsChoices :
          /\ files' = fs
          /\ hashType' = HashTypeOf(options)
    /\ fileIdx' = 1
    /\ resultArr' = <<>>
    /\ pc' = "hashLoop"
    /\ UNCHANGED <<resp, calls, hash, cur, streams>>

\* lines 260-263: the next file's hash is created and its stream opened
StreamOpen ==
    /\ pc = "hashLoop"
    /\ fileIdx <= Len(files)
    /\ hash' = CreateHash(hashType)
    /\ calls' = Append(calls, [cmd |-> "cat", params |-> "", path |-> files[fileIdx]])
    /\ streams' = Append(streams, NewStream)
    /\ cur' = [cur EXCEPT !.err = FALSE]
    /\ pc' = "stream"
    /\ UNCHANGED <<resp, files, hashType, fileIdx, resultArr>>

PushRecordFirst(arr, rec) == <<rec>> \o arr

PushRecord(arr, rec) == Append(arr, rec)

EmitsAlways(exitCode) == exitCode # NoExit

Emits(exitCode) == exitCode = 0

FeedsWithErr(sd) == sd.data # <<>>

\* line 266: if (data && !err)
Feeds(sd) == sd.data # <<>> /\ ~sd.err

NeverThrows(h) == FALSE

\* hash.update of line 267 and hash.digest of line 275 throw on a crypto.Hash
\* whose digest was called
HashThrows(h) == h.finalized

\* lines 263-278: the callback of the stream, on one chunk
Callback(sd) ==
    IF HashThrows(hash) /\ (Feeds(sd) \/ Emits(sd.exitCode))
    THEN /\ pc' = "callbackThrew"
         /\ UNCHANGED <<hash, resultArr>>
    ELSE LET h1 == IF Feeds(sd) THEN Update(hash, sd.data) ELSE hash
         IN  /\ IF Emits(sd.exitCode)
                THEN /\ resultArr' =
                           PushRecord(resultArr,
                                      [name |-> Basename(files[fileIdx]),
                                       path |-> Dirname(files[fileIdx]),
                                       hashType |-> hashType,
                                       hash |-> Digest(h1)])
                     /\ hash' = Finalize(h1)
                ELSE /\ resultArr' = resultArr
                     /\ hash' = h1
             /\ pc' = pc

\* the stream calls back with one chunk
Delivers(sd) ==
    /\ pc = "stream"
    /\ cur.chunks < MaxChunks
    /\ Callback(sd)
    /\ streams' =
          [streams EXCEPT ![fileIdx] =
              [@ EXCEPT !.exitCode = IF sd.exitCode # NoExit THEN sd.exitCode ELSE @,
                        !.pushed = @ + Len(resultArr') - Len(resultArr)]]
    /\ UNCHANGED <<resp, calls, files, hashType, fileIdx>>

\* a chunk of a stream that has reported no exit code yet; whether the
\* stream has flagged an error is kept
StreamChunk ==
    /\ pc = "stream"
    /\ streams[fileIdx].exitCode = NoExit
    /\ \E sd \in Chunks :
          /\ Delivers(sd)
          /\ cur' = [err |-> cur.err \/ sd.err, chunks |-> cur.chunks + 1]

\* the same, the chunk going to the record of what the stream delivered
StreamChunkLogged ==
    /\ pc = "stream"
    /\ streams[fileIdx].exitCode = NoExit
    /\ \E sd \in Chunks :
          /\ Delivers(sd)
          /\ cur' = [cur EXCEPT !.chunks = @ + 1]
          /\ delivered' = Append(delivered, sd)

\* a chunk of a stream that may go on after the chunk with its exit code
StreamChunkAny ==
    /\ pc = "stream"
    /\ \E sd \in Chunks :
          /\ Delivers(sd)
          /\ cur' = [cur EXCEPT !.chunks = @ + 1]

\* the promise of catBinarySafe resolves: the loop goes on
StreamResolves ==
    /\ pc = "stream"
    /\ streams' = [streams EXCEPT ![fileIdx].ended = "resolved"]
    /\ fileIdx' = fileIdx + 1
    /\ cur' = [cur EXCEPT !.err = FALSE]
    /\ pc' = "hashLoop"
    /\ UNCHANGED <<resp, calls, files, hashType, hash, resultArr>>

\* the promise of catBinarySafe rejects: the await of line 263 throws
StreamRejects ==
    /\ pc = "stream"
    /\ streams' = [streams EXCEPT ![fileIdx].ended = "rejected"]
    /\ pc' = "hashThrew"
    /\ UNCHANGED <<resp, calls, files, hashType, fileIdx, hash, resultArr, cur>>

\* line 281
CalcHashReturn ==
    /\ pc = "hashLoop"
    /\ fileIdx > Len(files)
    /\ pc' = "hashDone"
    /\ UNCHANGED <<resp, calls, files, hashType, fileIdx, hash, resultArr, cur,
                   streams>>

vars == <<pc, resp, calls, ignore, safeRes, args, root, idx, result, raised, caught,
          files, hashType, fileIdx, hash, resultArr, cur, streams,
          callNo, listed, first, delivered,
          dockerOptions, optionsList, built>>

InitAgain ==
    /\ callNo = 1
    /\ listed = <<>>
    /\ first = EmptyResult
    /\ delivered = <<>>

(***************************************************************************)
(* The options of docker.  An options object is its fields, a string for   *)
(* each, "" for a field that is not set; reading a field the object does   *)
(* not have gives undefined, which is as falsy as "".  An argument of the  *)
(* command is <<word>>, and <<flag, value>> for `flag=value`.              *)
(***************************************************************************)
\* lines 13-19
DockerOptionsFields == {"host", "tlsVerify", "tlsCert", "tlsCaCert", "tlsKey"}

NoDockerOptions ==
    [given |-> FALSE, fields |-> [k \in DockerOptionsFields |-> ""]]

DockerOptionsValues ==
    {NoDockerOptions}
    \cup {[given |-> TRUE, fields |-> f] : f \in [DockerOptionsFields -> {"", "x"}]}

\* options.k
Get(options, k) == IF k \in DOMAIN options.fields THEN options.fields[k] ELSE ""

\* lines 46-60: if (options.k) opts.push(`flag=${options.k}`)
Opt(flag, value) == IF value # "" THEN << <<flag, value>> >> ELSE <<>>

\* lines 41-62
CreateOptionsList(options) ==
    IF ~options.given THEN <<>>
    ELSE Opt("--host", Get(options, "host"))
         \o Opt("--tlscert", Get(options, "tlscert"))
         \o Opt("--tlscacert", Get(options, "tlscacert"))
         \o Opt("--tlskey", Get(options, "tlskey"))
         \o Opt("--tlsverify", Get(options, "tlsverify"))

Words(ws) == [k \in 1..Len(ws) |-> <<ws[k]>>]

TargetImage == "image"

NoCommand == [of |-> "", options |-> NoDockerOptions, argv |-> <<>>]

\* the constructor without options
InitNoOptions ==
    /\ dockerOptions = NoDockerOptions
    /\ optionsList = CreateOptionsList(NoDockerOptions)
    /\ built = NoCommand

\* lines 66-68: the constructor with any options or none
InitDocker ==
    /\ dockerOptions \in DockerOptionsValues
    /\ optionsList = CreateOptionsList(dockerOptions)
    /\ built = NoCommand

CmdChoices == {<<"ls", "-1ap", "/">>, <<"cat", "/etc/os-release">>}

\* lines 34-39
StaticRun ==
    \E a \in CmdChoices, options \in DockerOptionsValues :
        built' = [of |-> "Docker.run", options |-> options,
                  argv |-> CreateOptionsList(options) \o Words(a)]

RunArgs(a) ==
    optionsList
    \o Words(<<"run", "--rm", "--entrypoint", "\"\"", "--network", "none",
               TargetImage>>)
    \o Words(a)

\* lines 93-106
RunCommand ==
    \E a \in CmdChoices :
        built' = [of |-> "run", options |-> dockerOptions, argv |-> RunArgs(a)]

\* lines 108-125
RunAsStreamCommand ==
    \E a \in CmdChoices :
        built' = [of |-> "runAsStream", options |-> dockerOptions, argv |-> RunArgs(a)]

\* lines 127-129
Pull ==
    built' = [of |-> "pull", options |-> dockerOptions,
              argv |-> Words(<<"pull", TargetImage>>)]

\* lines 131-138
Save ==
    built' = [of |-> "save", options |-> dockerOptions,
              argv |-> Words(<<"save", TargetImage, "-o", "image.tar">>)]

\* lines 140-146
InspectImage ==
    built' = [of |-> "inspectImage", options |-> dockerOptions,
              argv |-> optionsList \o Words(<<"inspect", TargetImage>>)]

InitBase == InitRun /\ InitScan /\ InitHash /\ InitAgain

InitOptions == InitBase /\ InitDocker

Init == InitBase /\ InitNoOptions

(***************************************************************************)
(* The specifications: the safe runners called on their own, a scan, a     *)
(* hashing, a scan run twice on the same listings, a hashing that records  *)
(* the chunks, a hashing whose streams go on after their exit code, the    *)
(* commands built with the options, and any of them.                       *)
(***************************************************************************)
NextSafe ==
    \/ ExecuteEnds /\ pc = "runSafe" /\ UNCHANGED <<safeVars, scanVars, hashVars, againVars, logVars, optVars>>
    \/ RunSafeCall /\ UNCHANGED <<scanVars, hashVars, againVars, logVars, optVars>>
    \/ CatSafeCall /\ UNCHANGED <<scanVars, hashVars, againVars, logVars, optVars>>
    \/ LsSafeCall /\ UNCHANGED <<scanVars, hashVars, againVars, logVars, optVars>>
    \/ RunSafeReturn /\ UNCHANGED <<scanVars, hashVars, againVars, logVars, optVars>>

NextScan ==
    \/ ExecuteEnds /\ pc # "runSafe" /\ UNCHANGED <<safeVars, scanVars, hashVars, againVars, logVars, optVars>>
    \/ FindGlobsCall /\ UNCHANGED <<safeVars, hashVars, againVars, logVars, optVars>>
    \/ LsRootReturn /\ UNCHANGED <<safeVars, hashVars, againVars, logVars, optVars>>
    \/ SubdirNext /\ UNCHANGED <<safeVars, hashVars, againVars, logVars, optVars>>
    \/ LsSubReturn /\ UNCHANGED <<safeVars, hashVars, againVars, logVars, optVars>>
    \/ LsPathReturn /\ UNCHANGED <<safeVars, hashVars, againVars, logVars, optVars>>
    \/ SubdirsDone /\ UNCHANGED <<safeVars, hashVars, againVars, logVars, optVars>>
    \/ Walk /\ UNCHANGED <<safeVars, hashVars, againVars, logVars, optVars>>

NextHash ==
    \/ CalcHashCall /\ UNCHANGED <<safeVars, scanVars, againVars, logVars, optVars>>
    \/ StreamOpen /\ UNCHANGED <<safeVars, scanVars, againVars, logVars, optVars>>
    \/ StreamChunk /\ UNCHANGED <<safeVars, scanVars, againVars, logVars, optVars>>
    \/ StreamResolves /\ UNCHANGED <<safeVars, scanVars, againVars, logVars, optVars>>
    \/ StreamRejects /\ UNCHANGED <<safeVars, scanVars, againVars, logVars, optVars>>
    \/ CalcHashReturn /\ UNCHANGED <<safeVars, scanVars, againVars, logVars, optVars>>

NextTwice ==
    \/ /\ ExecuteEnds /\ pc # "runSafe" /\ callNo = 1
       /\ UNCHANGED <<safeVars, scanVars, hashVars, againVars, logVars, optVars>>
    \/ ExecuteReplays /\ UNCHANGED <<safeVars, scanVars, hashVars, againVars, logVars, optVars>>
    \/ FindGlobsCall /\ UNCHANGED <<safeVars, hashVars, againVars, logVars, optVars>>
    \/ FindGlobsAgain /\ UNCHANGED <<safeVars, hashVars, logVars, optVars>>
    \/ LsRootReturn /\ Listed /\ UNCHANGED <<safeVars, hashVars, callNo, first, logVars, optVars>>
    \/ SubdirNext /\ UNCHANGED <<safeVars, hashVars, againVars, logVars, optVars>>
    \/ LsSubReturn /\ Listed /\ UNCHANGED <<safeVars, hashVars, callNo, first, logVars, optVars>>
    \/ LsPathReturn /\ Listed /\ UNCHANGED <<safeVars, hashVars, callNo, first, logVars, optVars>>
    \/ SubdirsDone /\ UNCHANGED <<safeVars, hashVars, againVars, logVars, optVars>>
    \/ Walk /\ UNCHANGED <<safeVars, hashVars, againVars, logVars, optVars>>

NextHashLogged ==
    \/ CalcHashCall /\ UNCHANGED <<safeVars, scanVars, againVars, logVars, optVars>>
    \/ StreamOpen /\ delivered' = <<>> /\ UNCHANGED <<safeVars, scanVars, againVars, optVars>>
    \/ StreamChunkLogged /\ UNCHANGED <<safeVars, scanVars, againVars, optVars>>
    \/ StreamResolves /\ delivered' = <<>> /\ UNCHANGED <<safeVars, scanVars, againVars, optVars>>
    \/ StreamRejects /\ UNCHANGED <<safeVars, scanVars, againVars, logVars, optVars>>
    \/ CalcHashReturn /\ UNCHANGED <<safeVars, scanVars, againVars, logVars, optVars>>

NextHashAny ==
    \/ CalcHashCall /\ UNCHANGED <<safeVars, scanVars, againVars, logVars, optVars>>
    \/ StreamOpen /\ UNCHANGED <<safeVars, scanVars, againVars, logVars, optVars>>
    \/ StreamChunkAny /\ UNCHANGED <<safeVars, scanVars, againVars, logVars, optVars>>
    \/ StreamResolves /\ UNCHANGED <<safeVars, scanVars, againVars, logVars, optVars>>
    \/ StreamRejects /\ UNCHANGED <<safeVars, scanVars, againVars, logVars, optVars>>
    \/ CalcHashReturn /\ UNCHANGED <<safeVars, scanVars, againVars, logVars, optVars>>

baseVars == <<pc, resp, calls, safeVars, scanVars, hashVars, againVars, logVars>>

NextOptions ==
    \/ StaticRun /\ UNCHANGED <<baseVars, dockerOptions, optionsList>>
    \/ RunCommand /\ UNCHANGED <<baseVars, dockerOptions, optionsList>>
    \/ RunAsStreamCommand /\ UNCHANGED <<baseVars, dockerOptions, optionsList>>
    \/ Pull /\ UNCHANGED <<baseVars, dockerOptions, optionsList>>
    \/ Save /\ UNCHANGED <<baseVars, dockerOptions, optionsList>>
    \/ InspectImage /\ UNCHANGED <<baseVars, dockerOptions, optionsList>>

Next ==
    \/ NextSafe \/ NextScan \/ NextHash \/ NextTwice \/ NextHashLogged
    \/ NextHashAny \/ NextOptions

SpecSafe == Init /\ [][NextSafe]_vars

SpecRun == Init /\ [][NextSafe \/ NextScan]_vars

SpecScan == Init /\ [][NextScan]_vars

SpecHash == Init /\ [][NextHash]_vars

SpecTwice == Init /\ [][NextTwice]_vars

SpecHashLogged == Init /\ [][NextHashLogged]_vars

SpecHashAny == Init /\ [][NextHashAny]_vars

SpecOptions == InitOptions /\ [][NextOptions]_vars

Spec == Init /\ [][Next]_vars

(***************************************************************************)
(* Properties of findGlobs.                                                *)
(***************************************************************************)
FullPath(f) == Join(f.path, f.name)

Walked == Range(IterateFiles(root))

MatchesAny(filePath, gs) == \E g \in Range(gs) : Minimatch(filePath, g)

MatchesList(filePath, globsArr) ==
    globsArr.defined /\ MatchesAny(filePath, globsArr.list)

RootScan == args.recursive /\ args.path = <<>>

\* C1: when findGlobs has returned, no walked file whose full path matches
\* an exclusion glob is in manifestFiles or in binaryFiles, whatever manifest
\* or binary glob it matches as well.
C1_ExclusionDominates ==
    pc = "done" =>
        \A f \in Walked :
            MatchesAny(FullPath(f), args.exclusionGlobs) =>
                /\ FullPath(f) \notin Range(result.manifestFiles)
                /\ FullPath(f) \notin Range(result.binaryFiles)

\* a returned scan that walked a file matching an exclusion glob and a
\* manifest glob, and one matching an exclusion glob and a binary glob only
C1_Witness ==
    /\ pc = "done"
    /\ \E f \in Walked :
          /\ MatchesAny(FullPath(f), args.exclusionGlobs)
          /\ MatchesList(FullPath(f), args.globs.manifestGlobs)
    /\ \E f \in Walked :
          /\ MatchesAny(FullPath(f), args.exclusionGlobs)
          /\ ~MatchesList(FullPath(f), args.globs.manifestGlobs)
          /\ MatchesList(FullPath(f), args.globs.binaryGlobs)

\* C2: when findGlobs has returned, no path is in both manifestFiles and
\* binaryFiles, and a walked file that is not excluded and matches a manifest
\* glob and a binary glob is in manifestFiles and not in binaryFiles.
C2_OneListOnly ==
    pc = "done" =>
        /\ Range(result.manifestFiles) \cap Range(result.binaryFiles) = {}
        /\ \A f \in Walked :
              /\ ~MatchesAny(FullPath(f), args.exclusionGlobs)
              /\ MatchesList(FullPath(f), args.globs.manifestGlobs)
              /\ MatchesList(FullPath(f), args.globs.binaryGlobs)
              => /\ FullPath(f) \in Range(result.manifestFiles)
                 /\ FullPath(f) \notin Range(result.binaryFiles)

\* a returned scan that walked a file, not excluded, matching both a manifest
\* glob and a binary glob, and another file recorded as a binary file
C2_Witness ==
    /\ pc = "done"
    /\ \E f \in Walked :
          /\ ~MatchesAny(FullPath(f), args.exclusionGlobs)
          /\ MatchesList(FullPath(f), args.globs.manifestGlobs)
          /\ MatchesList(FullPath(f), args.globs.binaryGlobs)
    /\ result.binaryFiles # <<>>

\* C3: in a recursive scan from "/", no recursive listing is ever run for a
\* top-level directory whose name is in excludeRootDirectories.
C3_NoListingOfExcludedRoots ==
    RootScan =>
        \A k \in 1..Len(calls) :
            calls[k].cmd = "ls" /\ calls[k].params = "-1apR" /\ Len(calls[k].path) = 1
                => calls[k].path[1] \notin Range(args.excludeRootDirectories)

\* a returned recursive scan from "/" with the default excludeRootDirectories
\* whose root listing named proc and another directory, which was listed
C3_Witness ==
    /\ pc = "done"
    /\ RootScan
    /\ args.excludeRootDirectories = <<"dev", "proc", "sys">>
    /\ \E i \in 1..Len(root.subDirs) : root.subDirs[i].name = "proc"
    /\ Len(calls) = 2

(***************************************************************************)
(* Properties of runSafe and of the listings of findGlobs.                 *)
(***************************************************************************)
Contains(text, pat) ==
    \E i \in 0..(Len(text) - Len(pat)) : SubSeq(text, i + 1, i + Len(pat)) = pat

Tolerated(r, patterns) ==
    /\ r.kind = "fail"
    /\ r.stderr.isString
    /\ \E p \in Range(patterns) : Contains(r.stderr.text, p)

HardFailure(r, patterns) == r.kind = "fail" /\ ~Tolerated(r, patterns)

LsPatterns ==
    << <<"No", "such", "file">>, <<"file", "not", "found">>,
       <<"Permission", "denied">> >>

Returned(r) == [threw |-> FALSE, stdout |-> r.stdout, stderr |-> r.stderr]

Thrown(r) == [threw |-> TRUE, stdout |-> r.stdout, stderr |-> r.stderr]

\* C4: when the command of runSafe has failed with a string in stderr that
\* contains one of ignoreErrors, runSafe does not throw and returns the
\* failure's {stdout, stderr}; so does lsSafe for a stderr that contains
\* "Permission denied", "No such file" or "file not found".
C4_ToleratedFailureReturns ==
    pc \in {"returned", "threw"} =>
        /\ Tolerated(resp, ignore) =>
              pc = "returned" /\ safeRes = Returned(resp)
        /\ calls[1].cmd = "ls" /\ Tolerated(resp, LsPatterns) =>
              pc = "returned" /\ safeRes = Returned(resp)

\* lsSafe has returned {stdout, stderr} of a failure whose stderr is
\* "ls: /proc/1/fd: Permission denied"
C4_Witness ==
    /\ pc = "returned"
    /\ calls[1].cmd = "ls"
    /\ resp.kind = "fail"
    /\ resp.stderr = Text(<<"ls:", "/proc/1/fd:", "Permission", "denied">>)
    /\ safeRes = Returned(resp)

\* C5: when the awaited command has failed and its stderr is no string or
\* contains none of ignoreErrors, the next step of runSafe throws the error
\* it caught, and the next step of a findGlobs awaiting that listing throws
\* and never records a result; runSafe returns normally only for a success
\* or a tolerated failure.
C5_HardFailurePropagates ==
    [][/\ pc = "runSafe" /\ HardFailure(resp, ignore) =>
             pc' = "threw" /\ safeRes' = Thrown(resp)
       /\ pc \in {"lsRoot", "lsSub", "lsPath"} /\ HardFailure(resp, LsPatterns) =>
             /\ pc' = "raised"
             /\ raised'
             /\ resp' = resp
             /\ result' = EmptyResult
       /\ pc' = "returned" => ~HardFailure(resp', ignore')
       /\ pc' \in {"walk", "done"} => ~raised' /\ resp'.kind = "none"
      ]_vars

\* findGlobs has thrown on the listing of a top-level subdirectory that failed
\* with no string in stderr
C5_Witness ==
    /\ pc = "raised"
    /\ raised
    /\ Len(calls) = 2
    /\ resp.kind = "fail"
    /\ ~resp.stderr.isString

(***************************************************************************)
(* Properties of calcHashOfBinaryFiles.                                    *)
(***************************************************************************)
FileOf(rec) == Append(rec.path, rec.name)

ExitedZero == {i \in 1..Len(streams) : streams[i].exitCode = 0}

\* C6: a record is pushed for a file exactly when its stream delivered a
\* chunk with exitCode 0: the records are as many as the streams that exited
\* with 0, each is of a file whose stream did, and a stream that ended
\* with another exit code or none pushed nothing.  Hashing two files, the
\* second of which ends with a non-zero exit code, returns one record, for
\* the first file.
C6_RecordOnlyOnExitZero ==
    /\ Len(resultArr) = Cardinality(ExitedZero)
    /\ \A i \in 1..Len(streams) :
          streams[i].pushed = IF streams[i].exitCode = 0 THEN 1 ELSE 0
    /\ \A k \in 1..Len(resultArr) :
          \E i \in ExitedZero : FileOf(resultArr[k]) = files[i]
    /\ pc = "hashDone" /\ Len(files) = 2
       /\ streams[1].exitCode = 0 /\ streams[2].exitCode # 0 =>
          /\ Len(resultArr) = 1
          /\ resultArr[1].name = files[1][Len(files[1])]
          /\ FileOf(resultArr[1]) = files[1]

\* two different files were hashed, the first stream exited with 0 after
\* some data and the second with 1: one record was returned
C6_Witness ==
    /\ pc = "hashDone"
    /\ Len(files) = 2
    /\ files[1] # files[2]
    /\ streams[1].exitCode = 0
    /\ streams[2].exitCode = 1
    /\ Len(resultArr) = 1
    /\ resultArr[1].hash.of # <<>>

\* C7 (as claimed): once a chunk of the open stream has flagged an error, no
\* record is pushed for that file, whatever the exit code of a later chunk.
C7_NoRecordAfterError ==
    [][pc = "stream" /\ cur.err => resultArr' = resultArr]_vars

\* C8 (as claimed): calcHashOfBinaryFiles never throws, however a stream
\* ends, and what it returns has a record for every file whose stream exited
\* with 0.
C8_SilentDrop ==
    /\ pc # "hashThrew"
    /\ pc = "hashDone" =>
          \A i \in 1..Len(files) :
              streams[i].exitCode = 0 =>
                  \E k \in 1..Len(resultArr) : FileOf(resultArr[k]) = files[i]

\* the files whose stream pushed a record, in the order of the input
PushedFiles ==
    LET is == SelectSeq([i \in 1..Len(streams) |-> i],
                        LAMBDA i : streams[i].pushed > 0)
    IN  [k \in 1..Len(is) |-> files[is[k]]]

\* C9: the streams are opened one at a time in the order of the input: the
\* k-th command is cat of the k-th file, every stream but the last opened
\* has resolved, and the records are in the order of their files in the input.
C9_OneAtATimeInOrder ==
    /\ Len(streams) <= Len(files)
    /\ Len(calls) = Len(streams)
    /\ \A k \in 1..Len(calls) : calls[k].cmd = "cat" /\ calls[k].path = files[k]
    /\ \A i \in 1..(Len(streams) - 1) : streams[i].ended = "resolved"
    /\ pc \in {"hashLoop", "hashDone"} =>
          \A i \in 1..Len(streams) : streams[i].ended = "resolved"
    /\ [k \in 1..Len(resultArr) |-> FileOf(resultArr[k])] = PushedFiles

\* two different files were hashed and both have a record
C9_Witness ==
    /\ pc = "hashDone"
    /\ Len(files) = 2
    /\ files[1] # files[2]
    /\ Len(resultArr) = 2

(***************************************************************************)
(* C10.                                                                    *)
(***************************************************************************)
Prefixed(fs, n) == [k \in 1..Len(fs) |-> [fs[k] EXCEPT !.path = <<n>> \o @]]

ListedSubdirs ==
    SelectSeq(root.subDirs,
              LAMBDA d : d.name \notin Range(args.excludeRootDirectories))

ExpectedCalls ==
    <<[cmd |-> "ls", params |-> "-1ap", path |-> <<>>]>>
    \o [k \in 1..Len(ListedSubdirs) |->
          [cmd |-> "ls", params |-> "-1apR", path |-> <<ListedSubdirs[k].name>>]]

ScanReturnedAll ==
    /\ pc = "raised" => HardFailure(resp, LsPatterns)
    /\ pc \in {"walk", "done"} /\ RootScan => calls = ExpectedCalls
    /\ pc = "done" =>
          result = Classify(IterateFiles(root), args.globs, args.exclusionGlobs,
                            EmptyResult)

\* C10: in a recursive scan from "/", a listing of the root or of a top-level
\* subdirectory that fails with a tolerated error does not make findGlobs
\* throw: the tree gets what the failure's stdout held for that branch and
\* nothing else changes, the loop goes on to the next subdirectory, and a
\* scan that gets to its walk has listed every top-level subdirectory that is
\* not excluded and returns the walk's result.
C10_ToleratedListingGoesOn ==
    [][/\ pc = "lsRoot" /\ Tolerated(resp, LsPatterns) =>
             /\ pc' = "subdirs"
             /\ idx' = 1
             /\ root' = ParseLsOutput(resp.stdout)
       /\ pc = "lsSub" /\ Tolerated(resp, LsPatterns) =>
             /\ pc' = "subdirs"
             /\ idx' = idx + 1
             /\ Len(root'.subDirs) = Len(root.subDirs)
             /\ root'.files = root.files
             /\ \A j \in 1..Len(root.subDirs) :
                   j # idx => root'.subDirs[j] = root.subDirs[j]
             /\ root'.subDirs[idx].name = root.subDirs[idx].name
             /\ IterateFiles(root'.subDirs[idx]) =
                   Prefixed(IterateFiles(ParseLsOutput(resp.stdout)),
                            root.subDirs[idx].name)
       /\ ScanReturnedAll'
      ]_vars

\* a recursive scan from "/" has returned files although one of its three
\* listings failed with a tolerated error
C10_Witness ==
    /\ pc = "done"
    /\ RootScan
    /\ caught
    /\ Len(calls) = 3
    /\ result # EmptyResult

(***************************************************************************)
(* C11.                                                                    *)
(***************************************************************************)
ListedFiles(r) == Prefixed(IterateFiles(ParseLsOutput(r.stdout)), root.subDirs[idx].name)

\* C11: in a recursive scan from "/", when the recursive listing of the
\* top-level subdirectory d returns, the files of d in the tree are the file
\* entries of that listing, in order, each with the path d followed by its
\* path in the listing; no later step changes them, so each is rewritten
\* once; and every path a returned scan holds is the full path of a walked
\* file, which starts with d for a file of d.
C11_ReRootedOnce ==
    [][/\ pc = "lsSub" /\ pc' = "subdirs" =>
             IterateFiles(root'.subDirs[idx]) = ListedFiles(resp)
       /\ pc \in {"subdirs", "walk"} => root' = root
       /\ pc = "lsSub" =>
             \A j \in 1..Len(root.subDirs) :
                 j # idx => root'.subDirs[j] = root.subDirs[j]
       /\ pc' = "done" /\ RootScan' =>
             /\ \A i \in 1..Len(root'.subDirs) :
                   \A f \in Range(IterateFiles(root'.subDirs[i])) :
                       /\ Head(f.path) = root'.subDirs[i].name
                       /\ Head(FullPath(f)) = root'.subDirs[i].name
             /\ Range(result'.manifestFiles) \cup Range(result'.binaryFiles)
                   \subseteq {FullPath(f) : f \in Range(IterateFiles(root'))}
      ]_vars

\* a recursive scan from "/" has returned a file of a subdirectory of a
\* top-level subdirectory and a file of that subdirectory itself
C11_Witness ==
    /\ pc = "done"
    /\ RootScan
    /\ <<"app", "lib", "a">> \in Range(result.binaryFiles)
    /\ <<"usr", "a">> \in Range(result.binaryFiles)

(***************************************************************************)
(* C12.                                                                    *)
(***************************************************************************)
\* C12: a second call of findGlobs with the arguments of the first, whose
\* listings get the output the first call's listings got, issues the
\* listing commands of the first call again, does not throw, and returns
\* the lists the first call returned, element for element.
C12_SecondCallSame ==
    callNo = 2 =>
        /\ pc # "raised"
        /\ Len(calls) <= 2 * Len(listed)
        /\ \A k \in (Len(listed) + 1)..Len(calls) : calls[k] = calls[k - Len(listed)]
        /\ pc = "done" =>
              /\ Len(calls) = 2 * Len(listed)
              /\ result = first

\* the second call of a recursive scan from "/" that made three listings
\* has returned, and the first call had returned files of both kinds
C12_Witness ==
    /\ pc = "done"
    /\ callNo = 2
    /\ RootScan
    /\ Len(listed) = 3
    /\ first.manifestFiles # <<>>
    /\ first.binaryFiles # <<>>

(***************************************************************************)
(* C13.                                                                    *)
(***************************************************************************)
NoEntries == root = EmptyDir("/")

AllRootsExcluded ==
    /\ RootScan
    /\ root.subDirs # <<>>
    /\ \A i \in 1..Len(root.subDirs) :
          root.subDirs[i].name \in Range(args.excludeRootDirectories)

AllFilesExcluded ==
    \A f \in Walked : MatchesAny(FullPath(f), args.exclusionGlobs)

\* C13 as it is stated: a scan from "/" all of whose top-level directories
\* are in excludeRootDirectories returns two empty lists.
C13_AllRootsExcludedIsEmpty ==
    pc = "done" /\ AllRootsExcluded => result = EmptyResult

\* C13: a listing that ends without a hard failure, whatever it printed,
\* does not make findGlobs throw; and a scan that comes to its walk with a
\* tree without entries, or (recursive, from "/") with every top-level
\* directory in excludeRootDirectories and no file in "/", or with every
\* file matching an exclusion glob, returns manifestFiles = [] and
\* binaryFiles = [] and has not thrown.
C13_NothingToReturn ==
    [][/\ /\ pc \in {"lsRoot", "lsSub", "lsPath"}
          /\ resp.kind # "none"
          /\ ~HardFailure(resp, LsPatterns)
          => pc' # "raised" /\ ~raised'
       /\ /\ pc = "walk"
          /\ \/ NoEntries
             \/ AllRootsExcluded /\ root.files = <<>>
             \/ AllFilesExcluded
          => pc' = "done" /\ result' = EmptyResult /\ ~raised'
      ]_vars

\* a recursive scan from "/" with a glob that matches every path has
\* returned nothing: the top-level directories are all excluded and "/"
\* holds no file
C13_Witness ==
    /\ pc = "done"
    /\ AllRootsExcluded
    /\ root.files = <<>>
    /\ args.globs.binaryGlobs = GlobList(<<AnyGlob>>)
    /\ args.exclusionGlobs = <<>>
    /\ result = EmptyResult

(***************************************************************************)
(* C14 and C15.                                                            *)
(***************************************************************************)
\* the recursive listings due for the not excluded ones of the first n
\* top-level subdirectories, in the order of the root listing
DueFor(n) ==
    LET ds == SelectSeq(SubSeq(root.subDirs, 1, n),
                        LAMBDA d : d.name \notin Range(args.excludeRootDirectories))
    IN  [k \in 1..Len(ds) |->
            [cmd |-> "ls", params |-> "-1apR", path |-> <<ds[k].name>>]]

Outstanding == pc \in {"lsRoot", "lsSub", "lsPath"}

CallsInOrder ==
    RootScan /\ pc # "idle" =>
        /\ Head(calls) = [cmd |-> "ls", params |-> "-1ap", path |-> <<>>]
        /\ \A k \in 1..Len(calls) :
              ~(calls[k].params = "-1apR" /\ calls[k].path = <<>>)
        /\ pc = "lsRoot" => Len(calls) = 1
        /\ pc = "subdirs" => Tail(calls) = DueFor(idx - 1)
        /\ pc = "lsSub" =>
              /\ Tail(calls) = DueFor(idx)
              /\ calls[Len(calls)].path = <<root.subDirs[idx].name>>
        /\ pc \in {"walk", "done"} => Tail(calls) = DueFor(Len(root.subDirs))

\* C14: in a recursive scan from "/" the first listing is ls -1ap of "/";
\* the listings after it are ls -1apR of the top-level subdirectories of
\* that listing that are not excluded, one for each, in the order of the
\* listing, as far as the loop has come; a listing is issued only when none
\* is outstanding; and "/" is never listed recursively.
C14_RootThenSubdirsInOrder ==
    [][/\ CallsInOrder'
       /\ calls' # calls =>
             /\ ~Outstanding
             /\ Outstanding'
             /\ Len(calls') = Len(calls) + 1
             /\ SubSeq(calls', 1, Len(calls)) = calls
      ]_vars

\* a recursive scan from "/" has returned after the root listing and the
\* recursive listings of two top-level subdirectories
C14_Witness ==
    /\ pc = "done"
    /\ RootScan
    /\ Len(root.subDirs) = 2
    /\ Len(calls) = 3
    /\ calls[2].path = <<root.subDirs[1].name>>
    /\ calls[3].path = <<root.subDirs[2].name>>

\* C15: a scan of a path other than "/", or a scan that is not recursive,
\* issues one listing command, of the given path and recursive exactly if
\* the scan is, and no other command up to its return or its failure.
C15_OneListingOtherwise ==
    ~RootScan /\ pc # "idle" =>
        calls = <<[cmd |-> "ls",
                   params |-> IF args.recursive THEN "-1apR" ELSE "-1ap",
                   path |-> args.path]>>

\* a recursive scan of /app has listed a subdirectory of /app and returned
\* files with the one listing
C15_Witness ==
    /\ pc = "done"
    /\ args.path = <<"app">>
    /\ args.recursive
    /\ root.subDirs # <<>>
    /\ result # EmptyResult
    /\ Len(calls) = 1

(***************************************************************************)
(* C16 and C17.                                                            *)
(***************************************************************************)
\* the data of the chunks of a record of chunks that carry data and no
\* error flag, one after the other
RECURSIVE CleanData(_)
CleanData(log) ==
    IF log = <<>> THEN <<>>
    ELSE (IF Head(log).data # <<>> /\ ~Head(log).err THEN Head(log).data ELSE <<>>)
         \o CleanData(Tail(log))

\* C16: when the stream of a file has delivered its chunk with exitCode 0,
\* the last record is that file's and its hash is the digest, under the
\* hash type of the call, of the data of the chunks this stream delivered
\* up to that chunk that carried data and no error flag, in the order of
\* their arrival: no chunk with an error flag and no chunk of an earlier
\* file is in it.
C16_DigestOfCleanChunks ==
    pc = "stream" /\ streams[fileIdx].exitCode = 0 =>
        /\ resultArr # <<>>
        /\ FileOf(resultArr[Len(resultArr)]) = files[fileIdx]
        /\ resultArr[Len(resultArr)].hashType = hashType
        /\ resultArr[Len(resultArr)].hash =
              [algorithm |-> hashType, of |-> CleanData(delivered)]

\* the second file's stream delivered data with an error flag and then
\* exitCode 0 with other data, after the first file's stream had delivered
\* data: the second record's hash is of the second chunk's data
C16_Witness ==
    /\ pc = "stream"
    /\ fileIdx = 2
    /\ Len(resultArr) = 2
    /\ resultArr[1].hash.of = <<1>>
    /\ streams[fileIdx].exitCode = 0
    /\ delivered = <<[data |-> <<1>>, err |-> TRUE, exitCode |-> NoExit],
                     [data |-> <<2>>, err |-> FALSE, exitCode |-> 0]>>
    /\ resultArr[2].hash.of = <<2>>

Occurrences(seq, x) == Cardinality({k \in 1..Len(seq) : seq[k] = x})

AtMostOneRecord ==
    /\ Len(streams) <= Len(files)
    /\ \A i \in 1..Len(streams) : streams[i].pushed <= 1
    /\ Len(resultArr) <= Len(files)
    /\ \A p \in Range(files) :
          Occurrences([k \in 1..Len(resultArr) |-> FileOf(resultArr[k])], p)
             <= Occurrences(files, p)

\* C17: whatever chunks the streams deliver, also after a chunk with an exit
\* code, every stream pushes at most one record, the records of a path are
\* at most as many as its occurrences in the input and the records at most
\* as many as the input paths; and once the hash of a file is finalised no
\* chunk of its stream updates it or pushes a record: the last record is
\* that file's one record and holds the digest of what the hash holds.
C17_AtMostOneRecordPerFile ==
    /\ AtMostOneRecord
    /\ pc \in {"stream", "callbackThrew"} /\ hash.finalized =>
          /\ streams[fileIdx].pushed = 1
          /\ resultArr # <<>>
          /\ FileOf(resultArr[Len(resultArr)]) = files[fileIdx]
          /\ resultArr[Len(resultArr)].hash = [algorithm |-> hash.algorithm, of |-> hash.data]

\* a stream delivered exitCode 0 and then a chunk that made the callback
\* throw: the file has its one record
C17_Witness ==
    /\ pc = "callbackThrew"
    /\ hash.finalized
    /\ streams[fileIdx].pushed = 1
    /\ Len(files) = 2
    /\ files[1] = files[2]
    /\ Len(resultArr) = 2

(***************************************************************************)
(* C18.                                                                    *)
(***************************************************************************)
FlagOf(k) ==
    CASE k = "host" -> "--host"
      [] k = "tlsVerify" -> "--tlsverify"
      [] k = "tlsCert" -> "--tlscert"
      [] k = "tlsCaCert" -> "--tlscacert"
      [] k = "tlsKey" -> "--tlskey"

BuiltFromOptions == built.of \in {"Docker.run", "run", "runAsStream", "inspectImage"}

\* C18 as it is stated: a docker command built from a DockerOptions value
\* has, for each of host, tlsVerify, tlsCert, tlsCaCert and tlsKey that is
\* set, the flag of that option with its value among its arguments, and no
\* such flag for an option that is not set.
C18_SetOptionGivesFlag ==
    BuiltFromOptions =>
        \A k \in DockerOptionsFields :
            IF built.options.given /\ built.options.fields[k] # ""
            THEN <<FlagOf(k), built.options.fields[k]>> \in Range(built.argv)
            ELSE \A e \in Range(built.argv) : e[1] # FlagOf(k)

====
